---- MODULE Spec2Model ----
(***************************************************************************)
(* Shannon-Fano compression (src/shannon_fano.py): pack = frequency,       *)
(* encode, pack_metadata, pack_data; unpack = unpack_metadata, unpack_data.*)
(*                                                                         *)
(* Symbols are code points (ord of a character), bits are 0 / 1, a         *)
(* codeword is a sequence of bits, a file is a sequence of bytes 0..255.   *)
(* A probability stat/total is kept as the count stat next to the total    *)
(* (input_size); the float comparison of the split is LeqHalf below.       *)
(***************************************************************************)
EXTENDS Integers, Sequences, FiniteSets, TLC

BYTE_LENGTH == 8

\* Largest value to_bytes(1, ...) accepts.
ByteMax == 255

\* Longest small input text.
MaxLen == 6

\* The work stack of encode is a Python list: it grows until memory is
\* exhausted.  MaxStack ranges is where the model puts that limit.
MaxStack == 16

\* unpack is tried on the first 0..MaxKeep bytes of a compressed stream,
\* and on the stream with its last 1..MaxDrop bytes missing.
MaxKeep == 8
MaxDrop == 3

\* Code points of the small input texts: 'a', 'b', 'c', 'd'.
Alphabet == <<97, 98, 99, 100>>

\* Bytes that may follow the payload of a compressed stream.
TrailBytes == {0, 255}

Many(sym, k) == [i \in 1..k |-> sym]

Distinct(k) == [i \in 1..k |-> 31 + i]

\* 131 distinct symbols, once each: the smallest uniform input whose code
\* table holds a 9-bit codeword.
NineBitInput == Distinct(131)

\* The small input texts: every text of up to MaxLen symbols in which the
\* symbols first occur in the order of Alphabet (every other text over
\* Alphabet is one of these with its symbols renamed).
InOrder(text) ==
    \A i \in DOMAIN text :
        \E k \in 1..(Cardinality({text[j] : j \in 1..(i - 1)}) + 1) :
            k <= Len(Alphabet) /\ text[i] = Alphabet[k]

SmallInputs ==
    {text \in UNION {[1..k -> {Alphabet[j] : j \in DOMAIN Alphabet}] : k \in 0..MaxLen} :
        InOrder(text)}

LargeInputs == {Many(97, ByteMax) \o <<98>>, Distinct(ByteMax + 1), NineBitInput}

Inputs == SmallInputs \cup LargeInputs

VARIABLES
    pc,              \* "pack", "encode", "pack_data", "packed", "unpack_data", "done", "error"
    err,             \* the exception that ended pack, "" when none
    finput,          \* the text given to pack
    input_size,      \* frequency: total
    frequency_data,  \* frequency: <<[char, stat], ...>>, most common first
    stack,           \* encode: the work stack of <<start, end>>, top last
    range,           \* encode: the <<start, end>> popped last, <<>> before the first pop
    partition_index, \* encode: partition_index of the last split
    encoder,         \* encode: <<[key, value], ...>> in insertion order
    fout,            \* the bytes pack has written
    fin,             \* the stream given to unpack
    pos,             \* unpack: bytes of fin read so far
    decoder,         \* unpack_metadata: codeword -> symbol
    val_lens,        \* unpack_metadata: the codeword lengths of the header
    remaining,       \* unpack_data: input_size, counted down
    bits,            \* unpack_data: the bit buffer
    foutput          \* the symbols unpack has written

vars == <<pc, err, finput, input_size, frequency_data, stack, range,
          partition_index, encoder, fout, fin, pos, decoder, val_lens,
          remaining, bits, foutput>>

packVars == <<finput, input_size, frequency_data, stack, range,
              partition_index, encoder>>

unpackVars == <<fin, pos, decoder, val_lens, remaining, bits, foutput>>

(***************************************************************************)
(* frequency                                                               *)
(***************************************************************************)
\* A function as the table of its values, so that TLC computes each value
\* once instead of at every application.
Table(f) == f @@ <<>>

\* The members of a set of integers in increasing order.
Ascending(S) ==
    LET rank == Table([i \in S |-> Cardinality({j \in S : j < i})])
    IN [k \in 1..Cardinality(S) |-> CHOOSE i \in S : rank[i] = k - 1]

SymbolsOf(text) == {text[i] : i \in DOMAIN text}

CountOf(text, s) == Cardinality({i \in DOMAIN text : text[i] = s})

FirstAt(text, s) ==
    LET at == {i \in DOMAIN text : text[i] = s}
    IN CHOOSE i \in at : \A j \in at : i <= j

\* Counter.most_common(): by count, largest first; equal counts stay in
\* the order of first occurrence (sorted is stable).  Before(x, y): x comes
\* before y in that order.
Before(cnt, first, x, y) ==
    \/ cnt[x] > cnt[y]
    \/ cnt[x] = cnt[y] /\ first[x] < first[y]

MostCommon(cnt, first, syms) ==
    LET rank == Table([s \in syms |->
                    1 + Cardinality({y \in syms : Before(cnt, first, y, s)})])
    IN [k \in 1..Cardinality(syms) |->
           LET s == CHOOSE x \in syms : rank[x] = k
           IN [char |-> s, stat |-> cnt[s]]] \o <<>>

Frequency(text) ==
    LET syms  == SymbolsOf(text)
        cnt   == Table([s \in syms |-> CountOf(text, s)])
        first == Table([s \in syms |-> FirstAt(text, s)])
    IN MostCommon(cnt, first, syms)

(***************************************************************************)
(* to_byte / from_byte and the bit strings                                 *)
(***************************************************************************)
\* data.to_bytes(1, "big") raises OverflowError outside 0..255.
ToByteWraps(data) == TRUE

ToByteFits(data) == data \in 0..ByteMax

\* int(value, 2)
RECURSIVE IntOf(_)
IntOf(value) ==
    IF value = <<>> THEN 0
    ELSE 2 * IntOf(SubSeq(value, 1, Len(value) - 1)) + value[Len(value)]

\* bin(n)[2:]
RECURSIVE Bin(_)
Bin(n) == IF n < 2 THEN <<n>> ELSE Bin(n \div 2) \o <<n % 2>>

\* s.rjust(width, '0')
RJust(s, width) ==
    IF Len(s) >= width THEN s ELSE [i \in 1..(width - Len(s)) |-> 0] \o s

\* s.ljust(width, '0')
LJust(s, width) ==
    IF Len(s) >= width THEN s ELSE s \o [i \in 1..(width - Len(s)) |-> 0]

(***************************************************************************)
(* encode                                                                  *)
(***************************************************************************)
IsPow2(n) == \E k \in 0..BYTE_LENGTH : n = 2^k

\* The probabilities stat/total and their sums are floats.  They are exact
\* when total is a power of two.  For NineBitInput (as many entries as
\* symbols read) the source, run on it, compares as exact arithmetic does
\* at every split.  Elsewhere a running sum that equals half the range's
\* sum exactly may round to either side.
RoundsExactly(fd, total) ==
    \/ IsPow2(total)
    \/ Len(fd) = Len(NineBitInput) /\ total = Len(NineBitInput)

TieOutcomes(fd, total) == IF RoundsExactly(fd, total) THEN {TRUE} ELSE BOOLEAN

\* partition <= half, with half = 0.5 * sum, all in units of 1/total; tie
\* is the outcome of the comparison when the two are equal in exact
\* arithmetic.  Unequal values differ by at least 1/(2 * total).
LeqHalfFlipped(partition, sum, tie) ==
    IF 2 * partition = sum THEN tie ELSE 2 * partition >= sum

LeqHalf(partition, sum, tie) ==
    IF 2 * partition = sum THEN tie ELSE 2 * partition <= sum

\* frequency_data[i], i counted from 0
At(fd, i) == fd[i + 1]

\* The sum of the stats of frequency_data[start..end] (by halves, to keep
\* the evaluation shallow).
RECURSIVE RangeSum(_, _, _)
RangeSum(fd, start, end) ==
    IF start > end THEN 0
    ELSE IF start = end THEN At(fd, start).stat
    ELSE LET mid == (start + end) \div 2
         IN RangeSum(fd, start, mid) + RangeSum(fd, mid + 1, end)

HasKey(enc, key) == \E j \in DOMAIN enc : enc[j].key = key

\* encoder[frequency_data[i][0]].append(bit[i]) for i = start..end in turn,
\* on a defaultdict(list): a key already there gets its bit appended, a new
\* key is inserted after the others, in the order of i.  The characters of
\* frequency_data are distinct.
AppendBits(enc, fd, start, end, bit) ==
    LET indexOf == Table([j \in DOMAIN enc |->
                       IF \E i \in start..end : At(fd, i).char = enc[j].key
                       THEN CHOOSE i \in start..end : At(fd, i).char = enc[j].key
                       ELSE start - 1])
        new == Ascending({i \in start..end : ~HasKey(enc, At(fd, i).char)})
    IN [j \in DOMAIN enc |->
           IF indexOf[j] >= start
           THEN [enc[j] EXCEPT !.value = Append(@, bit[indexOf[j]])]
           ELSE enc[j]]
       \o [k \in DOMAIN new |->
              [key |-> At(fd, new[k]).char, value |-> <<bit[new[k]]>>]]

\* The two-symbol range: '0' for start, '1' for end.
PairBitsSame(enc, fd, start, end) ==
    AppendBits(enc, fd, start, end, [i \in start..end |-> 0])

PairBits(enc, fd, start, end) ==
    AppendBits(enc, fd, start, end, [i \in start..end |-> IF i = start THEN 0 ELSE 1])

\* The split of a longer range: half, then the second for loop.  The bit of
\* index i is decided by partition, the sum of the stats before i.
Split(enc, fd, start, end, tie) ==
    LET sum  == RangeSum(fd, start, end)
        bit  == Table([i \in start..end |->
                    IF LeqHalf(RangeSum(fd, start, i - 1), sum, tie) THEN 0 ELSE 1])
        ones == {i \in start..end : bit[i] = 1}
    IN [encoder |-> AppendBits(enc, fd, start, end, bit),
        partition_index |->
            IF ones = {} THEN -1 ELSE CHOOSE i \in ones : \A j \in ones : i <= j]

(***************************************************************************)
(* pack                                                                    *)
(***************************************************************************)
Init ==
    /\ pc = "pack"
    /\ err = ""
    /\ finput \in Inputs
    /\ input_size = 0
    /\ frequency_data = <<>>
    /\ stack = <<>>
    /\ range = <<>>
    /\ partition_index = -1
    /\ encoder = <<>>
    /\ fout = <<>>
    /\ fin = <<>>
    /\ pos = 0
    /\ decoder = <<>>
    /\ val_lens = {}
    /\ remaining = 0
    /\ bits = <<>>
    /\ foutput = <<>>

\* pack: frequency(finput), then encode up to its while loop.
FrequencyStep ==
    /\ pc = "pack"
    /\ input_size' = Len(finput)
    /\ frequency_data' = Frequency(finput)
    /\ stack' = <<<<0, Len(frequency_data') - 1>>>>
    /\ pc' = "encode"
    /\ UNCHANGED <<err, finput, range, partition_index, encoder, fout>>
    /\ UNCHANGED unpackVars

\* One iteration of encode's while loop.
EncodeStep ==
    /\ pc = "encode"
    /\ stack # <<>>
    /\ LET start == stack[Len(stack)][1]
           end   == stack[Len(stack)][2]
           rest  == SubSeq(stack, 1, Len(stack) - 1)
       IN /\ range' = <<start, end>>
          /\ IF start = end
             THEN /\ stack' = rest
                  /\ UNCHANGED <<pc, err, encoder, partition_index>>
             ELSE IF end - start = 1
             THEN /\ stack' = rest
                  /\ encoder' = PairBits(encoder, frequency_data, start, end)
                  /\ UNCHANGED <<pc, err, partition_index>>
             ELSE \E tie \in TieOutcomes(frequency_data, input_size) :
                  LET s == Split(encoder, frequency_data, start, end, tie)
                      pushed == rest \o <<<<s.partition_index, end>>,
                                          <<start, s.partition_index - 1>>>>
                  IN /\ encoder' = s.encoder
                     /\ partition_index' = s.partition_index
                     /\ stack' = pushed
                     /\ pc' = IF Len(pushed) > MaxStack THEN "error" ELSE pc
                     /\ err' = IF Len(pushed) > MaxStack THEN "MemoryError" ELSE err
    /\ UNCHANGED <<finput, input_size, frequency_data, fout>>
    /\ UNCHANGED unpackVars

(***************************************************************************)
(* pack_metadata, pack_data                                                *)
(***************************************************************************)
\* The byte to_byte(data) writes.
ToByte(data) == data % (ByteMax + 1)

\* to_byte(ord(key)), to_byte(len(value)) and to_byte(int(value, 2)) all
\* succeed (int('', 2) raises ValueError).
EntryFits(e) ==
    /\ e.value # <<>>
    /\ ToByteFits(e.key)
    /\ ToByteFits(Len(e.value))
    /\ ToByteFits(IntOf(e.value))

\* The three bytes written for each of the first k entries of the table.
EntryBytes(enc, k) ==
    [m \in 1..(3 * k) |->
        LET e == enc[((m - 1) \div 3) + 1]
        IN CASE (m - 1) % 3 = 0 -> ToByte(e.key)
             [] (m - 1) % 3 = 1 -> ToByte(Len(e.value))
             [] OTHER           -> ToByte(IntOf(e.value))] \o <<>>

\* pack_metadata: what it writes, and whether it returns (ok) or raises at
\* the first to_byte that fails; the bytes written before stay written.
Metadata(enc, total, fd) ==
    IF ~ToByteFits(Len(fd)) THEN [out |-> <<>>, ok |-> FALSE]
    ELSE IF ~ToByteFits(total) THEN [out |-> <<ToByte(Len(fd))>>, ok |-> FALSE]
    ELSE LET bad   == {j \in DOMAIN enc : ~EntryFits(enc[j])}
             first == IF bad = {} THEN Len(enc) + 1
                      ELSE CHOOSE j \in bad : \A i \in bad : j <= i
         IN [out |-> <<ToByte(Len(fd)), ToByte(total)>> \o EntryBytes(enc, first - 1),
             ok  |-> bad = {}]

PackMetadata ==
    /\ pc = "encode"
    /\ stack = <<>>
    /\ LET m == Metadata(encoder, input_size, frequency_data)
       IN /\ fout' = m.out
          /\ pc' = IF m.ok THEN "pack_data" ELSE "error"
          /\ err' = IF m.ok THEN err ELSE "OverflowError"
    /\ UNCHANGED packVars
    /\ UNCHANGED unpackVars

\* encoder[char] for a key of the table
CodeOf(enc, char) == enc[CHOOSE j \in DOMAIN enc : enc[j].key = char].value

\* The codewords of text[a..b], concatenated (by halves).
RECURSIVE CodeBits(_, _, _, _)
CodeBits(enc, text, a, b) ==
    IF a > b THEN <<>>
    ELSE IF a = b THEN CodeOf(enc, text[a])
    ELSE LET mid == (a + b) \div 2
         IN CodeBits(enc, text, a, mid) \o CodeBits(enc, text, mid + 1, b)

\* The bytes the while loop of pack_data has written once all_bits went
\* through the buffer: it writes a byte while more than BYTE_LENGTH bits
\* are buffered, so 1..BYTE_LENGTH bits stay behind.
LoopBytes(all_bits) ==
    LET n == IF all_bits = <<>> THEN 0 ELSE (Len(all_bits) - 1) \div BYTE_LENGTH
    IN [k \in 1..n |->
           IntOf(SubSeq(all_bits, BYTE_LENGTH * (k - 1) + 1, BYTE_LENGTH * k))] \o <<>>

\* if bits: the rest, padded with '0' on the right.
LastByte(all_bits) ==
    LET n == Len(LoopBytes(all_bits))
        rest == SubSeq(all_bits, BYTE_LENGTH * n + 1, Len(all_bits))
    IN IF rest = <<>> THEN <<>> ELSE <<IntOf(LJust(rest, BYTE_LENGTH))>>

\* pack_data: bits += encoder[char] raises TypeError for a char that is no
\* key of the table (the defaultdict answers with a list).
Data(enc, text) ==
    LET missing == {i \in DOMAIN text : ~HasKey(enc, text[i])}
    IN IF missing = {}
       THEN LET all_bits == CodeBits(enc, text, 1, Len(text))
            IN [out |-> LoopBytes(all_bits) \o LastByte(all_bits), ok |-> TRUE]
       ELSE LET first == CHOOSE i \in missing : \A j \in missing : i <= j
            IN [out |-> LoopBytes(CodeBits(enc, text, 1, first - 1)), ok |-> FALSE]

PackData ==
    /\ pc = "pack_data"
    /\ LET d == Data(encoder, finput)
       IN /\ fout' = fout \o d.out
          /\ pc' = IF d.ok THEN "packed" ELSE "error"
          /\ err' = IF d.ok THEN err ELSE "TypeError"
    /\ UNCHANGED packVars
    /\ UNCHANGED unpackVars

(***************************************************************************)
(* unpack                                                                  *)
(***************************************************************************)
\* The streams unpack is run on: what pack wrote, that cut short, and that
\* followed by one more byte.
UnpackInputs(out) ==
    {out}
    \cup {SubSeq(out, 1, k) : k \in {j \in 0..(Len(out) - 1) :
                                      j <= MaxKeep \/ j >= Len(out) - MaxDrop}}
    \cup {Append(out, b) : b \in TrailBytes}

\* from_byte(file_input.read(1)) at offset p (from 1): read returns b'' at
\* the end of the file, and int.from_bytes(b'') is 0.
ReadByte(f, p) == IF p <= Len(f) THEN f[p] ELSE 0

\* The i-th (symbol, length, value) triple of the header.
KeyAt(f, i) == ReadByte(f, 3 * i)

ValLenAt(f, i) == ReadByte(f, 3 * i + 1)

ValAt(f, i) == RJust(Bin(ReadByte(f, 3 * i + 2)), ValLenAt(f, i))

\* decoder[val] = key for each triple in turn: the last one wins.
Decoder(f) ==
    LET n    == ReadByte(f, 1)
        vals == Table([i \in 1..n |-> ValAt(f, i)])
        last(v) == CHOOSE i \in 1..n : vals[i] = v /\ \A j \in 1..n : vals[j] = v => j <= i
    IN Table([v \in {vals[i] : i \in 1..n} |-> KeyAt(f, last(v))])

ValLens(f) == {ValLenAt(f, i) : i \in 1..ReadByte(f, 1)}

UnpackMetadata ==
    /\ pc = "packed"
    /\ \E f \in UnpackInputs(fout) :
          /\ fin' = f
          /\ remaining' = ReadByte(f, 2)
          /\ decoder' = Decoder(f)
          /\ val_lens' = ValLens(f)
          /\ pos' = IF 2 + 3 * ReadByte(f, 1) <= Len(f)
                    THEN 2 + 3 * ReadByte(f, 1) ELSE Len(f)
    /\ pc' = "unpack_data"
    /\ UNCHANGED <<err, fout, bits, foutput>>
    /\ UNCHANGED packVars

\* The for loop over the bits of one byte, from bit j on; st is
\* [bits, input_size, out].  break leaves the loop when input_size is 0.
RECURSIVE BitLoop(_, _, _, _, _)
BitLoop(dec, lens, byte, j, st) ==
    IF j > BYTE_LENGTH THEN st
    ELSE LET buf == Append(st.bits, byte[j])
         IN IF Len(buf) \in lens /\ buf \in DOMAIN dec
            THEN LET hit == [bits |-> <<>>, input_size |-> st.input_size - 1,
                             out |-> Append(st.out, dec[buf])]
                 IN IF hit.input_size = 0 THEN hit
                    ELSE BitLoop(dec, lens, byte, j + 1, hit)
            ELSE BitLoop(dec, lens, byte, j + 1, [st EXCEPT !.bits = buf])

\* One iteration of unpack_data's while loop: a byte was read.
UnpackDataByte ==
    /\ pc = "unpack_data"
    /\ pos < Len(fin)
    /\ LET byte == RJust(Bin(fin[pos + 1]), BYTE_LENGTH)
           st == BitLoop(decoder, val_lens, byte, 1,
                         [bits |-> bits, input_size |-> remaining, out |-> foutput])
       IN /\ bits' = st.bits
          /\ remaining' = st.input_size
          /\ foutput' = st.out
    /\ pos' = pos + 1
    /\ UNCHANGED <<pc, err, fout, fin, decoder, val_lens>>
    /\ UNCHANGED packVars

\* read(1) returned b'': the while loop ends and unpack closes its files.
UnpackClose ==
    /\ pc = "unpack_data"
    /\ pos >= Len(fin)
    /\ pc' = "done"
    /\ UNCHANGED <<err, fout>>
    /\ UNCHANGED packVars
    /\ UNCHANGED unpackVars

Next ==
    \/ FrequencyStep
    \/ EncodeStep
    \/ PackMetadata
    \/ PackData
    \/ UnpackMetadata
    \/ UnpackDataByte
    \/ UnpackClose

Spec == Init /\ [][Next]_vars

(***************************************************************************)
(* Properties                                                              *)
(***************************************************************************)
\* encode's while loop has ended and pack goes on with its table.
EncodeReturned == pc = "encode" /\ stack = <<>>

\* pack_metadata has returned.
MetadataWritten == pc \in {"pack_data", "packed", "unpack_data", "done"}

\* pack_metadata has run: it returned, or it raised.
MetadataRan == MetadataWritten \/ (pc = "error" /\ err = "OverflowError")

WithinLimits(text) ==
    Cardinality(SymbolsOf(text)) <= ByteMax /\ Len(text) <= ByteMax

IsPrefix(s, t) == Len(s) <= Len(t) /\ SubSeq(t, 1, Len(s)) = s

\* N and T of the header of the stream unpack reads.
HeaderN == ReadByte(fin, 1)

HeaderT == ReadByte(fin, 2)

\* C1: round trip: for every input with at most 255 distinct and at most
\* 255 total symbols (the empty input and the inputs of one repeated symbol
\* among them) pack completes, and unpack of what pack wrote writes exactly
\* the input.
C1_RoundTrip ==
    WithinLimits(finput) =>
        /\ pc # "error"
        /\ (pc = "done" /\ fin = fout) => foutput = finput

\* C2: prefix code: in the table encode returns, no codeword is a prefix of
\* the codeword of another symbol (so no two symbols share a codeword).
C2_PrefixFree ==
    EncodeReturned =>
        \A i, j \in DOMAIN encoder :
            i # j => /\ encoder[i].key # encoder[j].key
                     /\ ~IsPrefix(encoder[i].value, encoder[j].value)

\* encode has returned a table of four codewords.
C2_Witness == EncodeReturned /\ Len(encoder) = 4 /\ Len(finput) = MaxLen

\* C3: decoder stop: unpack_data never writes more than T symbols, T being
\* the total-count byte of the header, whatever follows in the stream.
C3_DecoderStop ==
    pc \in {"unpack_data", "done"} => Len(foutput) <= HeaderT

\* C4: empty input: pack of the empty input ends without an error, and the
\* stream it writes is the header N = 0, T = 0 with no payload.
C4_EmptyInput ==
    finput = <<>> =>
        /\ pc # "error"
        /\ pc \in {"pack_data", "packed"} => fout = <<0, 0>>

\* C5: balanced split: for an input of four distinct symbols of equal
\* count, every codeword of the table encode returns is 2 bits long.
C5_UniformFour ==
    (/\ EncodeReturned
     /\ Len(frequency_data) = 4
     /\ \A i \in DOMAIN frequency_data : frequency_data[i].stat = frequency_data[1].stat)
        => /\ Len(encoder) = 4
           /\ \A j \in DOMAIN encoder : Len(encoder[j].value) = 2

\* C6: header size law: when pack_metadata has returned for an input of at
\* least one symbol, the header is 2 + 3 * N bytes long, N its first byte.
C6_HeaderSize ==
    (pc = "pack_data" /\ Len(finput) >= 1) =>
        /\ Len(fout) >= 2
        /\ Len(fout) = 2 + 3 * fout[1]

\* C7: size limits: for an input of more than 255 distinct symbols or more
\* than 255 symbols in all, pack ends in an error (OverflowError) and never
\* completes a stream: pack_metadata does not return, and no count byte is
\* written truncated or wrapped.
C7_SizeLimits ==
    ~WithinLimits(finput) =>
        /\ pc \in {"pack", "encode", "error"}
        /\ pc = "error" => err = "OverflowError"
        /\ fout \in {<<>>, <<Len(frequency_data)>>}

\* pack has raised on the input of 256 distinct symbols.
C7_Witness ==
    /\ Cardinality(SymbolsOf(finput)) > ByteMax
    /\ pc = "error"
    /\ err = "OverflowError"

\* C8: truncated streams: unpack of a stream whose header ends before its
\* 2 + 3 * N bytes, or whose payload ends before T symbols are decoded,
\* does not complete normally.
C8_TruncatedIsError ==
    pc = "done" =>
        /\ Len(fin) >= 2 + 3 * HeaderN
        /\ Len(foutput) >= HeaderT

\* C9: codeword length limit: pack_metadata raises whenever the table holds
\* a codeword longer than 8 bits, and every header entry it writes has a
\* length byte in 1..8.
C9_LengthLimit ==
    MetadataRan =>
        /\ (\E j \in DOMAIN encoder : Len(encoder[j].value) > BYTE_LENGTH) => pc = "error"
        /\ \A i \in 1..((Len(fout) - 2) \div 3) : fout[3 * i + 1] \in 1..BYTE_LENGTH

\* An upper bound of the iterations left for a stack of non-empty ranges.
RECURSIVE Measure(_)
Measure(st) ==
    IF st = <<>> THEN 0
    ELSE Measure(Tail(st)) + 2 * (Head(st)[2] - Head(st)[1] + 1) - 1

\* C10: split progress: for a frequency list of n >= 1 entries, every range
\* on the work stack satisfies 0 <= start <= end <= n - 1; a popped range
\* with end - start >= 2 yields start < partition_index <= end; every
\* iteration lowers Measure(stack), so the loop ends, and it never
\* exhausts memory.
C10_SplitProgress ==
    /\ [](Len(frequency_data) >= 1 =>
            /\ \A k \in DOMAIN stack :
                  /\ 0 <= stack[k][1]
                  /\ stack[k][1] <= stack[k][2]
                  /\ stack[k][2] <= Len(frequency_data) - 1
            /\ (range # <<>> /\ range[2] - range[1] >= 2) =>
                  (range[1] < partition_index /\ partition_index <= range[2])
            /\ err # "MemoryError")
    /\ [][(pc = "encode" /\ stack # <<>> /\ Len(frequency_data) >= 1) =>
            Measure(stack') < Measure(stack)]_vars

\* A range of three or more entries was just split and both parts pushed.
C10_Witness ==
    /\ pc = "encode"
    /\ range # <<>>
    /\ range[2] - range[1] >= 2
    /\ Len(stack) >= 2
    /\ stack[Len(stack)] = <<range[1], partition_index - 1>>
    /\ stack[Len(stack) - 1] = <<partition_index, range[2]>>
====
